---- MODULE Spec2Model ----
(***************************************************************************)
(* Winb4ckup_script.py: backup of Windows user profiles from a CIFS share  *)
(* with rsync, a connection monitor thread and mount/remount recovery.     *)
(*                                                                         *)
(* Two specifications share the mount point (mountDepth):                  *)
(*   Spec          the orchestrator: main, retry_mount_cifs,               *)
(*                 mount_cifs_share, unmount_cifs_share, ensure_mount and  *)
(*                 backup_user_directories, statement by statement, with   *)
(*                 one rsync_files call as one step;                       *)
(*   SpecTransfer  rsync_files statement by statement, interleaved with    *)
(*                 the ConnectionMonitor thread and the rsync subprocess.  *)
(* Two more apply one function to the inputs drawn by their Init:          *)
(*   SpecClassify  the read loop of rsync_files on one output line, for    *)
(*                 parse_rsync_output;                                     *)
(*   SpecAuditor   log_deleted_files on two file lists.                    *)
(***************************************************************************)
EXTENDS Integers, Sequences, FiniteSets, TLC

\* ------------------------------------------------------------------ bounds
\* Lines of the inventory file.
MaxHosts == 2
\* How many entries of user_dirs the model walks (a prefix of the list).
NumUserDirs == 2
\* Mounts that can be stacked on the mount point before mount is refused.
MaxStack == 2
\* The per-host count of unmount calls saturates here ("more than once").
RelCap == 3

\* ------------------------------------------------------- program constants
\* retry_mount_cifs(ip_address, retries=3, delay=5)
retries == 3
\* for attempt in range(3): the existence re-checks of one sub-directory
ExistAttempts == 3
\* if attempt == 1 and not ensure_mount()
RemountAttempt == 1

user_dirs ==
  <<"Desktop", "Documents", "Downloads", "Pictures", "Music", "Videos",
    "AppData", "Favorites", "Search">>

\* The prefix of user_dirs the model walks.
UserDirs == SubSeq(user_dirs, 1, NumUserDirs)

\* user_folder in ['Default', 'Default User', 'Public', 'All Users']
SystemProfiles == {"Default", "Default User", "Public", "All Users"}

\* ------------------------------------------------------------ the share
\* os.listdir(users_path) of the modelled share: two profiles, a system
\* profile and a plain file.
ShareUsers == <<"alice", "Public", "desktop.ini", "bob">>
ShareFiles == {"desktop.ini"}
Profiles == {"alice", "bob"}
TempJob == <<"Windows", "Temp">>

\* An inventory line as line.split(',') sees it.
GoodLine == <<"deskA", "10.0.0.5">>
BadLine == <<"deskA 10.0.0.5">>

Range(s) == {s[i] : i \in 1..Len(s)}
Min(a, b) == IF a < b THEN a ELSE b

VARIABLES
  \* the environment: inventory file and what the remote share holds
  inventory, present, tempExists, usersMarker,
  \* the mount point: how many mounts are stacked on it
  mountDepth,
  \* main thread: position, return addresses, locals of each function
  pc, stack, hostIdx, attempt, retryOk, mountOk, ensOk,
  user_folders, userIdx, dirIdx, existAttempt, dir_found,
  \* history of the host being processed
  launched, mountTried, releases, mountCmdFailed, acquired, outcome,
  acqOps, lastCmdOk,
  \* one rsync_files call: the subprocess, its stdout pipe, the line read
  runs, proc, signalled, returncode, written, pipe, line,
  \* the ConnectionMonitor threads started so far, the is_alive flag of the
  \* one the running call reads, and the Spinner
  monitors, is_alive, spinner,
  \* what the call logged, and the entries it wrote to log_file
  logged, audit,
  \* history of the call
  streamEnded, readAfterLoss, lostDuringRead,
  \* the warnings the monitor of the running call logged
  warnings,
  \* history of the host being processed: its ping failed, the warnings main
  \* itself logged for it, unmount_cifs_share was called
  probeFailed, hostLog, unmountTried,
  \* log_deleted_files: the two file lists and the paths still to log
  src_files, dest_files, deleted_files,
  \* history of the sub-directory being processed: the os.path.exists checks
  \* made for it and the ensure_mount calls between them; and the
  \* sub-directories of the host that were skipped with a warning
  existChecks, ensureCalls, skipped

shareVars == <<inventory, present, tempExists, usersMarker>>
bkLocals == <<user_folders, userIdx, dirIdx, existAttempt, dir_found>>
hostHist == <<launched, mountTried, releases, mountCmdFailed, acquired>>
acqHist == <<acqOps, lastCmdOk>>
auditorVars == <<src_files, dest_files, deleted_files>>
dirHist == <<existChecks, ensureCalls, skipped>>
xferVars ==
  <<runs, proc, signalled, returncode, written, pipe, line, monitors, is_alive,
    spinner, logged, audit, streamEnded, readAfterLoss, lostDuringRead,
    warnings>>
vars ==
  <<inventory, present, tempExists, usersMarker, mountDepth,
    pc, stack, hostIdx, attempt, retryOk, mountOk, ensOk,
    user_folders, userIdx, dirIdx, existAttempt, dir_found,
    launched, mountTried, releases, mountCmdFailed, acquired, outcome,
    acqOps, lastCmdOk,
    runs, proc, signalled, returncode, written, pipe, line, monitors, is_alive,
    spinner, logged, audit, streamEnded, readAfterLoss, lostDuringRead,
    warnings, probeFailed, hostLog, unmountTried,
    src_files, dest_files, deleted_files,
    existChecks, ensureCalls, skipped>>

\* ------------------------------------------------------- file-system tests
\* os.path.ismount(config.mount_point)
ismount == mountDepth > 0

\* os.path.exists(os.path.join(mount_point, 'Users')): the mount point is an
\* empty local directory unless a share is mounted on it.
UsersExists == mountDepth > 0 /\ usersMarker

\* os.path.isdir(user_folder_path)
IsDir(folder) == UsersExists /\ folder \notin ShareFiles

\* os.path.exists(source_dir)
SourceExists(folder, dir) == UsersExists /\ <<folder, dir>> \in present

\* os.path.exists(temp_dir)
TempDirExists == mountDepth > 0 /\ tempExists

\* ------------------------------------------------ external command results
\* ping_host(ip_address).returncode
PingCodes == {0, 1}

\* subprocess.run(['sudo', 'umount', '-f', '-l', ...], check=True): umount of
\* a mount point that holds no mount fails; otherwise it may fail too.
UmountResults == IF mountDepth > 0 THEN {TRUE, FALSE} ELSE {FALSE}

\* subprocess.run(['sudo', 'mount', '-t', 'cifs', ...], check=True)
MountResults == IF mountDepth < MaxStack THEN {TRUE, FALSE} ELSE {FALSE}

\* os.makedirs(..., exist_ok=True) on the local backup tree
MakedirsRaises == {FALSE, TRUE}

\* ------------------------------------------------------- call and return
Call(target, ret) == pc' = target /\ stack' = <<ret>> \o stack
Return == pc' = Head(stack) /\ stack' = Tail(stack)

\* --------------------------------------------------- unmount_cifs_share
\* fuser -k, then umount -f -l; CalledProcessError is caught and logged, so
\* the caller never learns whether the share was unmounted.
unmount_cifs_share(ok) ==
  /\ mountDepth' = IF ok THEN mountDepth - 1 ELSE mountDepth
  /\ releases' = IF mountTried THEN Min(releases + 1, RelCap) ELSE releases
  /\ unmountTried' = TRUE

\* ----------------------------------------------------- mount_cifs_share
\* MountVerified without the check of lines 336-338 for the Users directory.
MountVerified_NoMarker(depth) == depth > 0

\* Lines 330-343, after a mount command that succeeded: the mount point must
\* report as mounted and hold the marker directory Users.
MountVerified(depth) == depth > 0 /\ usersMarker

\* Line 324: unmount any previous stale mount first.
mount_release ==
  /\ pc = "mount_release"
  /\ \E ok \in UmountResults : unmount_cifs_share(ok)
  /\ acqOps' = <<"umount">>
  /\ pc' = "mount_cmd"
  /\ UNCHANGED <<xferVars, auditorVars, dirHist, probeFailed, hostLog,
                 shareVars, stack, hostIdx, attempt, retryOk, mountOk, ensOk,
                 bkLocals, launched, mountTried, mountCmdFailed, acquired,
                 outcome, lastCmdOk>>

\* Lines 326-347: the mount command, then the two checks; CalledProcessError
\* and a failed check both return False.
mount_cmd ==
  /\ pc = "mount_cmd"
  /\ \E ok \in MountResults :
       /\ mountDepth' = IF ok THEN mountDepth + 1 ELSE mountDepth
       /\ mountOk' = (ok /\ MountVerified(mountDepth'))
       /\ lastCmdOk' = ok
       /\ mountCmdFailed' = (mountCmdFailed \/ ~ok)
  /\ mountTried' = TRUE
  /\ acqOps' = Append(acqOps, "mount")
  /\ Return
  /\ UNCHANGED <<xferVars, auditorVars, dirHist, probeFailed, hostLog,
                 unmountTried,
                 shareVars, hostIdx, attempt, retryOk, ensOk, bkLocals,
                 launched, releases, acquired, outcome>>

\* ------------------------------------------------------ retry_mount_cifs
\* Line 373: for attempt in range(retries); line 378-379 when exhausted.
retry_for ==
  /\ pc = "retry_for"
  /\ IF attempt < retries
       THEN /\ Call("mount_release", "retry_if")
            /\ acqOps' = <<>>
            /\ UNCHANGED retryOk
       ELSE /\ retryOk' = FALSE
            /\ Return
            /\ UNCHANGED acqOps
  /\ UNCHANGED <<xferVars, auditorVars, dirHist, probeFailed, hostLog,
                 unmountTried,
                 shareVars, mountDepth, hostIdx, attempt, mountOk, ensOk,
                 bkLocals, hostHist, outcome, lastCmdOk>>

\* retry_if that returns True whatever mount_cifs_share returned.
retry_if_IgnoresResult ==
  /\ pc = "retry_if"
  /\ retryOk' = TRUE
  /\ Return
  /\ UNCHANGED <<xferVars, auditorVars, dirHist, probeFailed, hostLog,
                 unmountTried,
                 shareVars, mountDepth, hostIdx, attempt, mountOk, ensOk,
                 bkLocals, hostHist, outcome, acqHist>>

\* Lines 374-377: return True on the first success, else warn, sleep, loop.
retry_if ==
  /\ pc = "retry_if"
  /\ IF mountOk
       THEN retryOk' = TRUE /\ Return /\ UNCHANGED attempt
       ELSE attempt' = attempt + 1 /\ pc' = "retry_for"
            /\ UNCHANGED <<retryOk, stack>>
  /\ UNCHANGED <<xferVars, auditorVars, dirHist, probeFailed, hostLog,
                 unmountTried,
                 shareVars, mountDepth, hostIdx, mountOk, ensOk, bkLocals,
                 hostHist, outcome, acqHist>>

\* ---------------------------------------------------------- ensure_mount
\* Lines 389-397: remount with retries when the Users directory is missing.
ens_check ==
  /\ pc = "ens_check"
  /\ IF ~UsersExists
       THEN attempt' = 0 /\ Call("retry_for", "ens_ret") /\ UNCHANGED ensOk
       ELSE ensOk' = TRUE /\ Return /\ UNCHANGED attempt
  /\ UNCHANGED <<xferVars, auditorVars, dirHist, probeFailed, hostLog,
                 unmountTried,
                 shareVars, mountDepth, hostIdx, retryOk, mountOk, bkLocals,
                 hostHist, outcome, acqHist>>

ens_ret ==
  /\ pc = "ens_ret"
  /\ ensOk' = retryOk
  /\ Return
  /\ UNCHANGED <<xferVars, auditorVars, dirHist, probeFailed, hostLog,
                 unmountTried,
                 shareVars, mountDepth, hostIdx, attempt, retryOk, mountOk,
                 bkLocals, hostHist, outcome, acqHist>>

\* ------------------------------------------- rsync_files, seen by its caller
\* How many times one rsync_files call runs unmount_cifs_share, by the way it
\* ends: line 315 (finally) always, line 305 after a non-zero exit code, line
\* 296 on link loss (whose exit code is then zero or not).
UnmountCalls(o) ==
  CASE o = "completed" -> {1}
    [] o = "error"     -> {1}
    [] o = "failed"    -> {2}
    [] o = "link_lost" -> {2, 3}

\* The mount depths k unmount calls in a row, each of which may fail, leave.
AfterUnmounts(depth, k) == {depth - j : j \in 0..Min(k, depth)}

\* Lines 266-315: rsync_files returns at once on a mount point that is not
\* mounted; otherwise it runs rsync and unmounts the share on every path.
rsync_files(job) ==
  /\ launched' = launched \cup {job}
  /\ IF ~ismount
       THEN /\ outcome' = "not_mounted"
            /\ UNCHANGED <<mountDepth, releases, unmountTried>>
       ELSE \E o \in {"completed", "failed", "link_lost", "error"} :
              \E k \in UnmountCalls(o) :
                /\ outcome' = o
                /\ mountDepth' \in AfterUnmounts(mountDepth, k)
                /\ releases' = Min(releases + k, RelCap)
                /\ unmountTried' = TRUE

\* ----------------------------------------------- backup_user_directories
\* An exception no handler of backup_user_directories catches unwinds to the
\* except clause of main (line 513).
Raise == pc' = "main_except" /\ stack' = <<>>

\* Line 400: if not ensure_mount()
bk_ensure ==
  /\ pc = "bk_ensure"
  /\ Call("ens_check", "bk_ensured")
  /\ UNCHANGED <<xferVars, auditorVars, dirHist, probeFailed, hostLog,
                 unmountTried,
                 shareVars, mountDepth, hostIdx, attempt, retryOk, mountOk,
                 ensOk, bkLocals, hostHist, outcome, acqHist>>

\* Lines 400-406: give up when the share could not be remounted; else make
\* the local Users directory.
bk_ensured ==
  /\ pc = "bk_ensured"
  /\ IF ~ensOk
       THEN Return
       ELSE \E raises \in MakedirsRaises :
              IF raises THEN Raise ELSE pc' = "bk_listdir" /\ UNCHANGED stack
  /\ UNCHANGED <<xferVars, auditorVars, dirHist, probeFailed, hostLog,
                 unmountTried,
                 shareVars, mountDepth, hostIdx, attempt, retryOk, mountOk,
                 ensOk, bkLocals, hostHist, outcome, acqHist>>

\* Lines 408-417: os.listdir(users_path); its exceptions end the function.
bk_listdir ==
  /\ pc = "bk_listdir"
  /\ IF UsersExists
       THEN /\ user_folders' = ShareUsers
            /\ userIdx' = 1
            /\ pc' = "bk_user_for"
            /\ UNCHANGED stack
       ELSE Return /\ UNCHANGED <<user_folders, userIdx>>
  /\ UNCHANGED <<xferVars, auditorVars, dirHist, probeFailed, hostLog,
                 unmountTried,
                 shareVars, mountDepth, hostIdx, attempt, retryOk, mountOk,
                 ensOk, dirIdx, existAttempt, dir_found, hostHist, outcome,
                 acqHist>>

\* Line 424: the folders the loop skips.
SkipFolder(folder) == ~IsDir(folder) \/ folder \in SystemProfiles

\* Lines 420-430: next user folder; skip what is no directory and the system
\* profiles; make the user's backup directory.
bk_user_for ==
  /\ pc = "bk_user_for"
  /\ IF userIdx > Len(user_folders)
       THEN pc' = "bk_temp" /\ UNCHANGED <<stack, userIdx, dirIdx>>
       ELSE IF SkipFolder(user_folders[userIdx])
         THEN /\ userIdx' = userIdx + 1
              /\ UNCHANGED <<pc, stack, dirIdx>>
         ELSE \E raises \in MakedirsRaises :
                IF raises
                  THEN Raise /\ UNCHANGED <<userIdx, dirIdx>>
                  ELSE /\ dirIdx' = 1
                       /\ pc' = "bk_dir_for"
                       /\ UNCHANGED <<stack, userIdx>>
  /\ UNCHANGED <<xferVars, auditorVars, dirHist, probeFailed, hostLog,
                 unmountTried,
                 shareVars, mountDepth, hostIdx, attempt, retryOk, mountOk,
                 ensOk, user_folders, existAttempt, dir_found, hostHist,
                 outcome, acqHist>>

\* Lines 433-439: next sub-directory of the user.
bk_dir_for ==
  /\ pc = "bk_dir_for"
  /\ IF dirIdx > Len(UserDirs)
       THEN /\ userIdx' = userIdx + 1
            /\ pc' = "bk_user_for"
            /\ UNCHANGED <<existAttempt, dir_found, existChecks, ensureCalls>>
       ELSE /\ dir_found' = FALSE
            /\ existAttempt' = 0
            /\ existChecks' = 0
            /\ ensureCalls' = 0
            /\ pc' = "bk_exists"
            /\ UNCHANGED userIdx
  /\ outcome' = "none"
  /\ UNCHANGED <<xferVars, auditorVars, skipped, probeFailed, hostLog,
                 unmountTried,
                 shareVars, mountDepth, stack, hostIdx, attempt, retryOk,
                 mountOk, ensOk, user_folders, dirIdx, hostHist, acqHist>>

\* ShouldRemount that holds after every failed check.
ShouldRemount_Always(a) == TRUE

\* Line 445: if attempt == 1
ShouldRemount(a) == a = RemountAttempt

\* Lines 439-448: up to three existence checks, with ensure_mount after the
\* second one failed.
bk_exists ==
  /\ pc = "bk_exists"
  /\ IF existAttempt >= ExistAttempts
       THEN /\ pc' = "bk_found"
            /\ UNCHANGED <<stack, existAttempt, dir_found, existChecks,
                           ensureCalls>>
       ELSE /\ existChecks' = existChecks + 1
            /\ IF SourceExists(user_folders[userIdx], UserDirs[dirIdx])
                  THEN /\ dir_found' = TRUE
                       /\ pc' = "bk_found"
                       /\ UNCHANGED <<stack, existAttempt, ensureCalls>>
                  ELSE IF ShouldRemount(existAttempt)
                    THEN /\ Call("ens_check", "bk_remounted")
                         /\ ensureCalls' = ensureCalls + 1
                         /\ UNCHANGED <<existAttempt, dir_found>>
                    ELSE /\ existAttempt' = existAttempt + 1
                         /\ UNCHANGED <<pc, stack, dir_found, ensureCalls>>
  /\ UNCHANGED <<xferVars, auditorVars, skipped, probeFailed, hostLog,
                 unmountTried,
                 shareVars, mountDepth, hostIdx, attempt, retryOk, mountOk,
                 ensOk, user_folders, userIdx, dirIdx, hostHist, outcome,
                 acqHist>>

\* Lines 445-448: a failed remount ends the re-checks.
bk_remounted ==
  /\ pc = "bk_remounted"
  /\ IF ~ensOk
       THEN pc' = "bk_found" /\ UNCHANGED existAttempt
       ELSE existAttempt' = existAttempt + 1 /\ pc' = "bk_exists"
  /\ UNCHANGED <<xferVars, auditorVars, dirHist, probeFailed, hostLog,
                 unmountTried,
                 shareVars, mountDepth, stack, hostIdx, attempt, retryOk,
                 mountOk, ensOk, user_folders, userIdx, dirIdx, dir_found,
                 hostHist, outcome, acqHist>>

\* Lines 450-451 and 458-459: make the destination, or warn and go on.
bk_found ==
  /\ pc = "bk_found"
  /\ IF dir_found
       THEN \E raises \in MakedirsRaises :
              IF raises
                THEN Raise /\ UNCHANGED <<dirIdx, skipped>>
                ELSE pc' = "bk_rsync" /\ UNCHANGED <<stack, dirIdx, skipped>>
       ELSE /\ skipped' =
                 skipped \cup {<<user_folders[userIdx], UserDirs[dirIdx]>>}
            /\ dirIdx' = dirIdx + 1
            /\ pc' = "bk_dir_for"
            /\ UNCHANGED stack
  /\ UNCHANGED <<xferVars, auditorVars, existChecks, ensureCalls,
                 probeFailed, hostLog, unmountTried,
                 shareVars, mountDepth, hostIdx, attempt, retryOk, mountOk,
                 ensOk, user_folders, userIdx, existAttempt, dir_found,
                 hostHist, outcome, acqHist>>

\* Lines 452-457: the transfer of one sub-directory.
bk_rsync ==
  /\ pc = "bk_rsync"
  /\ rsync_files(<<user_folders[userIdx], UserDirs[dirIdx]>>)
  /\ dirIdx' = dirIdx + 1
  /\ pc' = "bk_dir_for"
  /\ UNCHANGED <<xferVars, auditorVars, dirHist, probeFailed, hostLog,
                 shareVars, stack, hostIdx, attempt, retryOk, mountOk, ensOk,
                 user_folders, userIdx, existAttempt, dir_found, mountTried,
                 mountCmdFailed, acquired, acqHist>>

\* Lines 461-473: the Windows/Temp directory, when it exists.
bk_temp ==
  /\ pc = "bk_temp"
  /\ IF TempDirExists
       THEN \E raises \in MakedirsRaises :
              IF raises THEN Raise ELSE pc' = "bk_temp_rsync" /\ UNCHANGED stack
       ELSE Return
  /\ UNCHANGED <<xferVars, auditorVars, dirHist, probeFailed, hostLog,
                 unmountTried,
                 shareVars, mountDepth, hostIdx, attempt, retryOk, mountOk,
                 ensOk, bkLocals, hostHist, outcome, acqHist>>

bk_temp_rsync ==
  /\ pc = "bk_temp_rsync"
  /\ rsync_files(TempJob)
  /\ Return
  /\ UNCHANGED <<xferVars, auditorVars, dirHist, probeFailed, hostLog,
                 shareVars, hostIdx, attempt, retryOk, mountOk, ensOk,
                 bkLocals, mountTried, mountCmdFailed, acquired, acqHist>>

\* ------------------------------------------------------------------ main
\* Lines 497-498: next inventory line; a line without a comma raises
\* IndexError at line.split(',')[1].
main_for ==
  /\ pc = "main_for"
  /\ IF hostIdx > Len(inventory)
       THEN pc' = "main_end"
       ELSE IF Len(inventory[hostIdx]) < 2
         THEN pc' = "main_except"
         ELSE pc' = "main_ping"
  /\ UNCHANGED <<xferVars, auditorVars, dirHist, probeFailed, hostLog,
                 unmountTried,
                 shareVars, mountDepth, stack, hostIdx, attempt, retryOk,
                 mountOk, ensOk, bkLocals, hostHist, outcome, acqHist>>

\* Reachable that takes every ping for an answer.
Reachable_Always(rc) == TRUE

\* Line 501: if ping_result.returncode == 0
Reachable(rc) == rc = 0

\* Lines 499-502 and 510-511: ping; mount with retries when it answers, else
\* warn that the host is not reachable.
main_ping ==
  /\ pc = "main_ping"
  /\ \E rc \in PingCodes :
       /\ probeFailed' = (rc # 0)
       /\ IF Reachable(rc)
            THEN /\ attempt' = 0
                 /\ Call("retry_for", "main_mounted")
                 /\ UNCHANGED hostLog
            ELSE /\ hostLog' = Append(hostLog, "is not reachable")
                 /\ pc' = "main_next"
                 /\ UNCHANGED <<stack, attempt>>
  /\ UNCHANGED <<xferVars, auditorVars, dirHist, unmountTried,
                 shareVars, mountDepth, hostIdx, retryOk, mountOk, ensOk,
                 bkLocals, hostHist, outcome, acqHist>>

\* Lines 502-509: on a mounted share make the host's directory and back the
\* users up; else warn.
main_mounted ==
  /\ pc = "main_mounted"
  /\ IF retryOk
       THEN /\ acquired' = TRUE
            /\ UNCHANGED hostLog
            /\ \E raises \in MakedirsRaises :
                 IF raises
                   THEN Raise
                   ELSE IF UsersExists
                     THEN Call("bk_ensure", "main_unmount")
                     ELSE pc' = "main_unmount" /\ UNCHANGED stack
       ELSE /\ hostLog' = Append(hostLog, "Failed to mount")
            /\ pc' = "main_next"
            /\ UNCHANGED <<stack, acquired>>
  /\ UNCHANGED <<xferVars, auditorVars, dirHist, probeFailed, unmountTried,
                 shareVars, mountDepth, hostIdx, attempt, retryOk, mountOk,
                 ensOk, bkLocals, launched, mountTried, releases,
                 mountCmdFailed, outcome, acqHist>>

\* Line 507: unmount_cifs_share() after the backup of the host.
main_unmount ==
  /\ pc = "main_unmount"
  /\ \E ok \in UmountResults : unmount_cifs_share(ok)
  /\ outcome' = "none"
  /\ pc' = "main_next"
  /\ UNCHANGED <<xferVars, auditorVars, dirHist, probeFailed, hostLog,
                 shareVars, stack, hostIdx, attempt, retryOk, mountOk, ensOk,
                 bkLocals, launched, mountTried, mountCmdFailed, acquired,
                 acqHist>>

\* Line 497: the loop goes on to the next line.
main_next ==
  /\ pc = "main_next"
  /\ hostIdx' = hostIdx + 1
  /\ pc' = "main_for"
  /\ launched' = {}
  /\ mountTried' = FALSE
  /\ releases' = 0
  /\ mountCmdFailed' = FALSE
  /\ acquired' = FALSE
  /\ skipped' = {}
  /\ probeFailed' = FALSE
  /\ hostLog' = <<>>
  /\ unmountTried' = FALSE
  /\ UNCHANGED <<xferVars, auditorVars, existChecks, ensureCalls,
                 shareVars, mountDepth, stack, attempt, retryOk, mountOk,
                 ensOk, bkLocals, outcome, acqHist>>

\* Lines 513-514: the except clause around the whole loop logs and falls
\* through to the end of main.
main_except ==
  /\ pc = "main_except"
  /\ pc' = "main_end"
  /\ UNCHANGED <<xferVars, auditorVars, dirHist, probeFailed, hostLog,
                 unmountTried,
                 shareVars, mountDepth, stack, hostIdx, attempt, retryOk,
                 mountOk, ensOk, bkLocals, hostHist, outcome, acqHist>>

\* ------------------------------------------------------------------ Spec
Inventories == [1..MaxHosts -> {GoodLine, BadLine}]

Init ==
  /\ inventory \in Inventories
  /\ usersMarker \in BOOLEAN
  /\ present \in SUBSET (Profiles \X Range(UserDirs))
  /\ tempExists \in BOOLEAN
  /\ usersMarker = FALSE => present = {}
  /\ mountDepth = 0
  /\ pc = "main_for"
  /\ stack = <<>>
  /\ hostIdx = 1
  /\ attempt = 0
  /\ retryOk = FALSE
  /\ mountOk = FALSE
  /\ ensOk = FALSE
  /\ user_folders = <<>>
  /\ userIdx = 1
  /\ dirIdx = 1
  /\ existAttempt = 0
  /\ dir_found = FALSE
  /\ launched = {}
  /\ mountTried = FALSE
  /\ releases = 0
  /\ mountCmdFailed = FALSE
  /\ acquired = FALSE
  /\ outcome = "none"
  /\ acqOps = <<>>
  /\ lastCmdOk = FALSE
  /\ runs = 0
  /\ proc = "none"
  /\ signalled = "none"
  /\ returncode = 0
  /\ written = 0
  /\ pipe = <<>>
  /\ line = <<>>
  /\ monitors = <<>>
  /\ is_alive = TRUE
  /\ spinner = "none"
  /\ logged = {}
  /\ audit = <<>>
  /\ streamEnded = FALSE
  /\ readAfterLoss = FALSE
  /\ lostDuringRead = FALSE
  /\ warnings = 0
  /\ probeFailed = FALSE
  /\ hostLog = <<>>
  /\ unmountTried = FALSE
  /\ src_files = <<>>
  /\ dest_files = <<>>
  /\ deleted_files = {}
  /\ existChecks = 0
  /\ ensureCalls = 0
  /\ skipped = {}

Next ==
  \/ main_for
  \/ main_ping
  \/ main_mounted
  \/ main_unmount
  \/ main_next
  \/ main_except
  \/ retry_for
  \/ retry_if
  \/ mount_release
  \/ mount_cmd
  \/ ens_check
  \/ ens_ret
  \/ bk_ensure
  \/ bk_ensured
  \/ bk_listdir
  \/ bk_user_for
  \/ bk_dir_for
  \/ bk_exists
  \/ bk_remounted
  \/ bk_found
  \/ bk_rsync
  \/ bk_temp
  \/ bk_temp_rsync

Spec == Init /\ [][Next]_vars


\* ==========================================================================
\* rsync_files, statement by statement
\* ==========================================================================

\* Output lines one rsync process writes at most.
MaxLines == 2
\* rsync_files calls in a row (backup_user_directories calls it once for
\* each sub-directory).
MaxRuns == 2
\* The count of warnings of one monitor saturates here.
WarnCap == 2

\* rsync_process.terminate() sends signal 15, rsync_process.kill() signal 9;
\* Popen.returncode is the negated signal number.
SIGTERM == 15
SIGKILL == 9
\* rsync's own exit codes: success, or an error code.
RsyncExitCodes == {0, 23}

\* ---------------------------------------------------- parse_rsync_output
Whitespace == {" ", "\n", "\t", "\r"}

\* line[:n]
Take(s, n) == SubSeq(s, 1, Min(n, Len(s)))

\* line[n:]
Drop(s, n) == SubSeq(s, n + 1, Len(s))

RECURSIVE LStrip(_)
LStrip(s) ==
  IF s # <<>> /\ Head(s) \in Whitespace THEN LStrip(Tail(s)) ELSE s

RECURSIVE RStrip(_)
RStrip(s) ==
  IF s # <<>> /\ s[Len(s)] \in Whitespace
    THEN RStrip(SubSeq(s, 1, Len(s) - 1))
    ELSE s

\* str.strip()
Strip(s) == RStrip(LStrip(s))

\* str.startswith(prefix)
StartsWith(s, prefix) ==
  Len(prefix) <= Len(s) /\ SubSeq(s, 1, Len(prefix)) = prefix

\* The if/elif chain of lines 135-185 in its order: the prefix tested and the
\* message returned ("None" where the function returns None).
ChangeTable ==
  <<
    <<<<">", "f", "+", "+", "+", "+", "+", "+", "+", "+", "+">>,
      "File created and transferred.">>,
    <<<<">", "f", ".", ".", "t", ".", ".", ".", ".", ".", ".">>,
      "File transferred and modification time updated.">>,
    <<<<">", "f", ".", "p", ".", ".", ".", ".", ".", ".", ".">>,
      "File transferred and permissions updated.">>,
    <<<<">", "f", ".", ".", "o", ".", ".", ".", ".", ".", ".">>,
      "File transferred and ownership updated.">>,
    <<<<">", "f", ".", "s", ".", ".", ".", ".", ".", ".", ".">>,
      "File transferred and symbolic link created.">>,
    <<<<">", "L", "+", "+", "+", "+", "+", "+", "+", "+", "+">>,
      "Symbolic link created.">>,
    <<<<">", "h", "+", "+", "+", "+", "+", "+", "+", "+", "+">>,
      "Hard link created.">>,
    <<<<">", "c", "+", "+", "+", "+", "+", "+", "+", "+", "+">>,
      "Character device file created and transferred.">>,
    <<<<">", "b", "+", "+", "+", "+", "+", "+", "+", "+", "+">>,
      "Block device file created and transferred.">>,
    <<<<">", "s", "f", "+", "+", "+", "+", "+", "+", "+", "+", "+">>,
      "Socket file created and transferred.">>,
    <<<<"c", "d", "+", "+", "+", "+", "+", "+", "+", "+", "+">>,
      "Directory created.">>,
    <<<<".", "d", ".", ".", "t", ".", ".", ".", ".", ".", ".">>,
      "Directory modification time updated.">>,
    <<<<".", "d", ".", ".", "t", "p", ".", ".", ".", ".", ".">>,
      "Directory modification time and permissions updated.">>,
    <<<<".", "f">>,
      "None">>,
    <<<<".", "d">>,
      "None">>,
    <<<<"c", "L">>,
      "Symbolic link updated.">>,
    <<<<".", "L">>,
      "None">>,
    <<<<"c">>,
      "Character device updated.">>,
    <<<<"b">>,
      "Block device updated.">>,
    <<<<"s">>,
      "Socket file updated.">>,
    <<<<">">>,
      "Special file created or transferred.">>,
    <<<<".", "d", ".", ".", ".", "p", ".", ".", ".", ".", ".">>,
      "Directory permissions updated.">>,
    <<<<".", "f", ".", ".", ".", "p", ".", ".", ".", ".", ".">>,
      "File permissions updated.">>
  >>

NoneInfo == [msg |-> "None", path |-> <<>>, raw |-> <<>>]

\* parse_rsync_output with the commented-out returns of lines 163, 166 and 171
\* in place of return None.
parse_rsync_output_NoSkip(ln) ==
  LET change_type == Strip(Take(ln, 11))
      file_path == Strip(Drop(ln, 12))
      hits == {i \in 1..Len(ChangeTable) :
                 StartsWith(change_type, ChangeTable[i][1])}
  IN IF hits = {}
       THEN [msg |-> "File or directory underwent some change. Rsync output:",
             path |-> file_path, raw |-> change_type]
       ELSE LET first == CHOOSE i \in hits : \A j \in hits : i <= j
            IN IF ChangeTable[first][2] = "None"
                 THEN [msg |-> "skipped (no changes).", path |-> file_path,
                       raw |-> <<>>]
                 ELSE [msg |-> ChangeTable[first][2], path |-> file_path,
                       raw |-> <<>>]

\* Lines 133-187: the first row of the chain whose prefix the change type
\* starts with decides; the else branch keeps the change type.
parse_rsync_output(ln) ==
  LET change_type == Strip(Take(ln, 11))
      file_path == Strip(Drop(ln, 12))
      hits == {i \in 1..Len(ChangeTable) :
                 StartsWith(change_type, ChangeTable[i][1])}
  IN IF hits = {}
       THEN [msg |-> "File or directory underwent some change. Rsync output:",
             path |-> file_path, raw |-> change_type]
       ELSE LET first == CHOOSE i \in hits : \A j \in hits : i <= j
            IN IF ChangeTable[first][2] = "None"
                 THEN NoneInfo
                 ELSE [msg |-> ChangeTable[first][2], path |-> file_path,
                       raw |-> <<>>]

\* Lines rsync writes in the model: a created file and an unchanged file.
CreatedLine == <<">", "f", "+", "+", "+", "+", "+", "+", "+", "+", "+", " ", "a", "\n">>
UnchangedLine == <<".", "f", " ", " ", " ", " ", " ", " ", " ", " ", " ", " ", "a", "\n">>
SampleLines == {CreatedLine, UnchangedLine}

\* --out-format=%i %n (line 260): the itemized changes, a blank, the name.
Blanks(n) == [i \in 1..n |-> " "]
ItemizedField(prefix) ==
  IF Len(prefix) < 11 THEN prefix \o Blanks(11 - Len(prefix)) ELSE prefix
OutputLine(field, name) == field \o <<" ">> \o name \o <<"\n">>
FileNames == {<<"a">>, <<"b", " ", "c">>}

\* One line for each row of the chain: the prefix the row tests, filled with
\* blanks to the width of the itemized field.
RowLines ==
  {OutputLine(ItemizedField(ChangeTable[i][1]), name) :
     i \in 1..Len(ChangeTable), name \in FileNames}

\* Itemized fields no row of the chain tests: a file sent, a hard link, a
\* deletion.
OtherFields ==
  { <<"<", "f", "+", "+", "+", "+", "+", "+", "+", "+", "+">>,
    <<"h", "f", "+", "+", "+", "+", "+", "+", "+", "+", "+">>,
    <<"*", "d", "e", "l", "e", "t", "i", "n", "g", " ", " ">> }
OtherLines == {OutputLine(field, name) : field \in OtherFields, name \in FileNames}

\* Lines shorter than the itemized field.
ShortLines == { <<"\n">>, <<".", "f", "\n">>, <<"x", "\n">> }

\* The lines parse_rsync_output is applied to.
ClassifyInputs == RowLines \cup OtherLines \cup ShortLines


\* ------------------------------------------------------------ the log
Log(msg) == [msg |-> msg, rc |-> 0]
LogRc(msg, rc) == [msg |-> msg, rc |-> rc]

\* What the orchestrator's variables hold while one rsync_files call runs.
orchFrozen ==
  <<shareVars, hostIdx, attempt, retryOk, mountOk, ensOk, bkLocals, launched,
    mountTried, mountCmdFailed, acquired, outcome, acqHist, probeFailed,
    hostLog, dirHist>>

\* The read loop of lines 280-297.
ReadLoop == {"rs_readline", "rs_parse", "rs_check_alive"}

\* ----------------------------------------------------- the rsync process
\* rsync writes one more line to stdout.
proc_write ==
  /\ proc = "running"
  /\ written < MaxLines
  /\ written' = written + 1
  /\ \E ln \in SampleLines : pipe' = Append(pipe, ln)
  /\ UNCHANGED <<orchFrozen, auditorVars, warnings, unmountTried,
                 mountDepth, releases, pc, stack, runs, proc,
                 signalled, returncode, line, monitors, is_alive, spinner, logged,
                 audit, streamEnded, readAfterLoss, lostDuringRead>>

\* The exit codes the process can end with now: killed by a signal sent to
\* it, or by itself with one of rsync's codes.
ExitCodesNow ==
  IF signalled = "kill"
    THEN {-SIGKILL}
    ELSE (IF signalled = "term" THEN {-SIGTERM} ELSE {}) \cup RsyncExitCodes

proc_exit ==
  /\ proc = "running"
  /\ proc' = "exited"
  /\ returncode' \in ExitCodesNow
  /\ UNCHANGED <<orchFrozen, auditorVars, warnings, unmountTried,
                 mountDepth, releases, pc, stack, runs,
                 signalled, written, pipe, line, monitors, is_alive, spinner, logged,
                 audit, streamEnded, readAfterLoss, lostDuringRead>>

\* ---------------------------------------------------- ConnectionMonitor
\* ping_host in the monitor thread: the return code, or an exception of
\* subprocess.run.
ProbeResults == {"0", "1", "raise"}

\* Line 41: while not self.stop_monitoring
mon_loop(i) ==
  /\ monitors[i].pc = "loop"
  /\ monitors' =
       [monitors EXCEPT ![i].pc =
          IF monitors[i].stop_monitoring THEN "done" ELSE "ping"]
  /\ UNCHANGED <<orchFrozen, auditorVars, warnings, unmountTried,
                 mountDepth, releases, pc, stack, runs, proc,
                 signalled, returncode, written, pipe, line, is_alive,
                 spinner, logged, audit, streamEnded, readAfterLoss,
                 lostDuringRead>>

\* Lines 43-47: ping; a non-zero return code clears self.is_alive and logs a
\* warning; an exception of ping_host ends the thread. Only the flag of the
\* monitor the running call holds is kept: no one can read the others. Its
\* warnings are counted up to WarnCap.
mon_ping(i) ==
  /\ monitors[i].pc = "ping"
  /\ \E res \in ProbeResults :
       /\ monitors' =
            [monitors EXCEPT
               ![i].pc = IF res = "raise" THEN "crashed" ELSE "sleep"]
       /\ is_alive' =
            IF res = "1" /\ i = Len(monitors) THEN FALSE ELSE is_alive
       /\ warnings' =
            IF res = "1" /\ i = Len(monitors)
              THEN Min(warnings + 1, WarnCap)
              ELSE warnings
       /\ lostDuringRead' =
            (lostDuringRead
               \/ (/\ res = "1"
                   /\ i = Len(monitors)
                   /\ pc \in ReadLoop
                   /\ proc = "running"))
  /\ UNCHANGED <<orchFrozen, auditorVars, unmountTried,
                 mountDepth, releases, pc, stack, runs, proc,
                 signalled, returncode, written, pipe, line, spinner, logged,
                 audit, streamEnded, readAfterLoss>>

\* Line 49: sleep(self.interval) ends.
mon_wake(i) ==
  /\ monitors[i].pc = "sleep"
  /\ monitors' = [monitors EXCEPT ![i].pc = "loop"]
  /\ UNCHANGED <<orchFrozen, auditorVars, warnings, unmountTried,
                 mountDepth, releases, pc, stack, runs, proc,
                 signalled, returncode, written, pipe, line, is_alive,
                 spinner, logged, audit, streamEnded, readAfterLoss,
                 lostDuringRead>>

\* ------------------------------------------------------- terminate_rsync
\* Lines 224-226: terminate() when poll() is None.
tr_poll ==
  /\ pc = "tr_poll"
  /\ IF proc = "running"
       THEN /\ signalled' = IF signalled = "kill" THEN "kill" ELSE "term"
            /\ pc' = "tr_wait"
            /\ UNCHANGED stack
       ELSE Return /\ UNCHANGED signalled
  /\ UNCHANGED <<orchFrozen, auditorVars, warnings, unmountTried,
                 mountDepth, releases, runs, proc, returncode,
                 written, pipe, line, monitors, is_alive, spinner, logged, audit,
                 streamEnded, readAfterLoss, lostDuringRead>>

\* tr_wait that kills without looking whether the process has exited.
tr_wait_AlwaysKills ==
  /\ pc = "tr_wait"
  /\ logged' =
       logged \cup {Log("Rsync did not terminate in time. Forcing kill.")}
  /\ signalled' = "kill"
  /\ Return
  /\ UNCHANGED <<orchFrozen, auditorVars, warnings, unmountTried,
                 mountDepth, releases, runs, proc, returncode,
                 written, pipe, line, monitors, is_alive, spinner, audit,
                 streamEnded, readAfterLoss, lostDuringRead>>

\* Lines 228-235: wait(timeout=10) returns when the process has exited;
\* TimeoutExpired when it still runs after 10 seconds, and then kill().
tr_wait ==
  /\ pc = "tr_wait"
  /\ \/ /\ proc = "exited"
        /\ logged' = logged \cup {Log("Rsync process terminated safely.")}
        /\ UNCHANGED signalled
     \/ /\ proc = "running"
        /\ logged' =
             logged \cup {Log("Rsync did not terminate in time. Forcing kill.")}
        /\ signalled' = "kill"
  /\ Return
  /\ UNCHANGED <<orchFrozen, auditorVars, warnings, unmountTried,
                 mountDepth, releases, runs, proc, returncode,
                 written, pipe, line, monitors, is_alive, spinner, audit, streamEnded,
                 readAfterLoss, lostDuringRead>>

\* ----------------------------------------------------------- rsync_files
\* The caller (lines 454 and 468) calls rsync_files with the share as the
\* orchestrator left it.
rs_call ==
  /\ pc \in {"rs_idle", "rs_returned"}
  /\ runs < MaxRuns
  /\ runs' = runs + 1
  /\ written' = 0
  /\ mountDepth' \in {0, 1}
  /\ pc' = "rs_ismount"
  /\ stack' = <<>>
  /\ releases' = 0
  /\ proc' = "none"
  /\ signalled' = "none"
  /\ returncode' = 0
  /\ pipe' = <<>>
  /\ line' = <<>>
  /\ spinner' = "none"
  /\ logged' = {}
  /\ audit' = <<>>
  /\ streamEnded' = FALSE
  /\ readAfterLoss' = FALSE
  /\ lostDuringRead' = FALSE
  /\ UNCHANGED <<orchFrozen, auditorVars, warnings, unmountTried,
                 monitors, is_alive>>

\* Lines 266-269: no rsync on a mount point that is not mounted.
rs_ismount ==
  /\ pc = "rs_ismount"
  /\ IF ~ismount
       THEN /\ logged' = logged \cup {Log("Mount point is not valid.")}
            /\ pc' = "rs_returned"
       ELSE pc' = "rs_start" /\ UNCHANGED logged
  /\ UNCHANGED <<orchFrozen, auditorVars, warnings, unmountTried,
                 mountDepth, releases, stack, runs, proc,
                 signalled, returncode, written, pipe, line, monitors, is_alive,
                 spinner, audit, streamEnded, readAfterLoss, lostDuringRead>>

\* Lines 271-273: a new Spinner, and a new ConnectionMonitor thread started.
rs_start ==
  /\ pc = "rs_start"
  /\ monitors' = Append(monitors, [pc |-> "loop", stop_monitoring |-> FALSE])
  /\ is_alive' = TRUE
  /\ warnings' = 0
  /\ spinner' = "created"
  /\ pc' = "rs_popen"
  /\ UNCHANGED <<orchFrozen, auditorVars, unmountTried,
                 mountDepth, releases, stack, runs, proc,
                 signalled, returncode, written, pipe, line, logged, audit,
                 streamEnded, readAfterLoss, lostDuringRead>>

\* subprocess.Popen and open(log_file, "a") of lines 278-279
PopenRaises == {FALSE, TRUE}

\* Lines 277-279: spinner.start(), Popen, open the log file.
rs_popen ==
  /\ pc = "rs_popen"
  /\ spinner' = "spinning"
  /\ \E raises \in PopenRaises :
       IF raises
         THEN pc' = "rs_except" /\ UNCHANGED proc
         ELSE pc' = "rs_readline" /\ proc' = "running"
  /\ UNCHANGED <<orchFrozen, auditorVars, warnings, unmountTried,
                 mountDepth, releases, stack, runs, signalled,
                 returncode, written, pipe, line, monitors, is_alive, logged, audit,
                 streamEnded, readAfterLoss, lostDuringRead>>

\* Lines 282-284: readline() blocks until rsync wrote a line or closed its
\* stdout; the empty string at end of file breaks the loop.
rs_readline ==
  /\ pc = "rs_readline"
  /\ \/ /\ pipe # <<>>
        /\ line' = Head(pipe)
        /\ pipe' = Tail(pipe)
        /\ pc' = "rs_parse"
        /\ readAfterLoss' =
             (readAfterLoss \/ Log("Connection lost. Terminating rsync process.")
                                 \in logged)
        /\ UNCHANGED streamEnded
     \/ /\ pipe = <<>>
        /\ proc = "exited"
        /\ streamEnded' = TRUE
        /\ pc' = "rs_wait"
        /\ UNCHANGED <<line, pipe, readAfterLoss>>
  /\ UNCHANGED <<orchFrozen, auditorVars, warnings, unmountTried,
                 mountDepth, releases, stack, runs, proc,
                 signalled, returncode, written, monitors, is_alive, spinner, logged,
                 audit, lostDuringRead>>

\* log.write(log_message) of line 289
WriteRaises == {FALSE, TRUE}

\* Lines 285-290: classify the line; write and log what is not None.
rs_parse ==
  /\ pc = "rs_parse"
  /\ LET human_readable_info == parse_rsync_output(line)
     IN IF human_readable_info # NoneInfo
          THEN \E raises \in WriteRaises :
                 IF raises
                   THEN pc' = "rs_except" /\ UNCHANGED audit
                   ELSE /\ audit' = Append(audit, human_readable_info)
                        /\ pc' = "rs_check_alive"
          ELSE pc' = "rs_check_alive" /\ UNCHANGED audit
  /\ UNCHANGED <<orchFrozen, auditorVars, warnings, unmountTried,
                 mountDepth, releases, stack, runs, proc,
                 signalled, returncode, written, pipe, line, monitors, is_alive,
                 spinner, logged, streamEnded, readAfterLoss, lostDuringRead>>

\* Lines 293-295: on a cleared is_alive flag warn and terminate rsync.
rs_check_alive ==
  /\ pc = "rs_check_alive"
  /\ IF ~is_alive
       THEN /\ logged' =
                 logged \cup {Log("Connection lost. Terminating rsync process.")}
            /\ Call("tr_poll", "rs_lost_unmount")
       ELSE pc' = "rs_readline" /\ UNCHANGED <<logged, stack>>
  /\ UNCHANGED <<orchFrozen, auditorVars, warnings, unmountTried,
                 mountDepth, releases, runs, proc, signalled,
                 returncode, written, pipe, line, monitors, is_alive, spinner, audit,
                 streamEnded, readAfterLoss, lostDuringRead>>

\* Lines 296-297: unmount_cifs_share(); break
rs_lost_unmount ==
  /\ pc = "rs_lost_unmount"
  /\ \E ok \in UmountResults : unmount_cifs_share(ok)
  /\ pc' = "rs_wait"
  /\ UNCHANGED <<orchFrozen, auditorVars, warnings,
                 stack, runs, proc, signalled, returncode,
                 written, pipe, line, monitors, is_alive, spinner, logged, audit,
                 streamEnded, readAfterLoss, lostDuringRead>>

\* rs_wait without the wait: line 299 left out.
rs_wait_skipped ==
  /\ pc = "rs_wait"
  /\ pc' = "rs_check_rc"
  /\ UNCHANGED <<orchFrozen, auditorVars, warnings, unmountTried,
                 mountDepth, releases, stack, runs, proc,
                 signalled, returncode, written, pipe, line, monitors,
                 is_alive, spinner, logged, audit, streamEnded,
                 readAfterLoss, lostDuringRead>>

\* Line 299: rsync_process.wait() returns when the process has exited.
rs_wait ==
  /\ pc = "rs_wait"
  /\ proc = "exited"
  /\ pc' = "rs_check_rc"
  /\ UNCHANGED <<orchFrozen, auditorVars, warnings, unmountTried,
                 mountDepth, releases, stack, runs, proc,
                 signalled, returncode, written, pipe, line, monitors, is_alive,
                 spinner, logged, audit, streamEnded, readAfterLoss,
                 lostDuringRead>>

\* RsyncFailed that does not look at the return code.
RsyncFailed_IgnoresCode == proc # "exited"

\* Line 302: if rsync_process.returncode != 0 (None while the process runs)
RsyncFailed == proc # "exited" \/ returncode # 0

\* Lines 302-308: the error with the return code and terminate_rsync, or the
\* success message.
rs_check_rc ==
  /\ pc = "rs_check_rc"
  /\ IF RsyncFailed
       THEN /\ logged' =
                 logged
                   \cup {LogRc("Rsync process failed with return code",
                               returncode)}
            /\ Call("tr_poll", "rs_failed_unmount")
       ELSE /\ logged' =
                 logged \cup {Log("Rsync process completed successfully.")}
            /\ pc' = "rs_finally"
            /\ UNCHANGED stack
  /\ UNCHANGED <<orchFrozen, auditorVars, warnings, unmountTried,
                 mountDepth, releases, runs, proc, signalled,
                 returncode, written, pipe, line, monitors, is_alive, spinner, audit,
                 streamEnded, readAfterLoss, lostDuringRead>>

\* Lines 305-306: unmount_cifs_share(); return (through finally)
rs_failed_unmount ==
  /\ pc = "rs_failed_unmount"
  /\ \E ok \in UmountResults : unmount_cifs_share(ok)
  /\ pc' = "rs_finally"
  /\ UNCHANGED <<orchFrozen, auditorVars, warnings,
                 stack, runs, proc, signalled, returncode,
                 written, pipe, line, monitors, is_alive, spinner, logged, audit,
                 streamEnded, readAfterLoss, lostDuringRead>>

\* Lines 309-310: except Exception logs the error.
rs_except ==
  /\ pc = "rs_except"
  /\ logged' = logged \cup {Log("Rsync process error")}
  /\ pc' = "rs_finally"
  /\ UNCHANGED <<orchFrozen, auditorVars, warnings, unmountTried,
                 mountDepth, releases, stack, runs, proc,
                 signalled, returncode, written, pipe, line, monitors, is_alive,
                 spinner, audit, streamEnded, readAfterLoss, lostDuringRead>>

\* rs_finally without monitor.stop(): line 314 left out.
rs_finally_KeepsMonitor ==
  /\ pc = "rs_finally"
  /\ spinner' = "stopped"
  /\ pc' = "rs_finally_unmount"
  /\ UNCHANGED <<orchFrozen, auditorVars, warnings, unmountTried,
                 mountDepth, releases, stack, runs, proc,
                 signalled, returncode, written, pipe, line, monitors,
                 is_alive, logged, audit, streamEnded, readAfterLoss,
                 lostDuringRead>>

\* Lines 313-314: spinner.stop() joins the spinner thread; monitor.stop()
\* sets the flag of the monitor and returns.
rs_finally ==
  /\ pc = "rs_finally"
  /\ spinner' = "stopped"
  /\ monitors' = [monitors EXCEPT ![Len(monitors)].stop_monitoring = TRUE]
  /\ pc' = "rs_finally_unmount"
  /\ UNCHANGED <<orchFrozen, auditorVars, warnings, unmountTried,
                 mountDepth, releases, stack, runs, proc,
                 signalled, returncode, written, pipe, line, is_alive, logged,
                 audit,
                 streamEnded, readAfterLoss, lostDuringRead>>

\* Line 315: unmount_cifs_share() in the finally clause.
rs_finally_unmount ==
  /\ pc = "rs_finally_unmount"
  /\ \E ok \in UmountResults : unmount_cifs_share(ok)
  /\ pc' = "rs_returned"
  /\ UNCHANGED <<orchFrozen, auditorVars, warnings,
                 stack, runs, proc, signalled, returncode,
                 written, pipe, line, monitors, is_alive, spinner, logged, audit,
                 streamEnded, readAfterLoss, lostDuringRead>>

\* ---------------------------------------------------------- SpecTransfer
InitTransfer ==
  /\ inventory = <<GoodLine>>
  /\ usersMarker = TRUE
  /\ present = {}
  /\ tempExists = FALSE
  /\ mountDepth = 1
  /\ pc = "rs_idle"
  /\ stack = <<>>
  /\ hostIdx = 1
  /\ attempt = 0
  /\ retryOk = TRUE
  /\ mountOk = TRUE
  /\ ensOk = TRUE
  /\ user_folders = <<>>
  /\ userIdx = 1
  /\ dirIdx = 1
  /\ existAttempt = 0
  /\ dir_found = TRUE
  /\ launched = {}
  /\ mountTried = TRUE
  /\ releases = 0
  /\ mountCmdFailed = FALSE
  /\ acquired = TRUE
  /\ outcome = "none"
  /\ acqOps = <<>>
  /\ lastCmdOk = TRUE
  /\ runs = 0
  /\ proc = "none"
  /\ signalled = "none"
  /\ returncode = 0
  /\ written = 0
  /\ pipe = <<>>
  /\ line = <<>>
  /\ monitors = <<>>
  /\ is_alive = TRUE
  /\ spinner = "none"
  /\ logged = {}
  /\ audit = <<>>
  /\ streamEnded = FALSE
  /\ readAfterLoss = FALSE
  /\ lostDuringRead = FALSE
  /\ warnings = 0
  /\ probeFailed = FALSE
  /\ hostLog = <<>>
  /\ unmountTried = TRUE
  /\ src_files = <<>>
  /\ dest_files = <<>>
  /\ deleted_files = {}
  /\ existChecks = 0
  /\ ensureCalls = 0
  /\ skipped = {}

NextTransfer ==
  \/ rs_call
  \/ rs_ismount
  \/ rs_start
  \/ rs_popen
  \/ rs_readline
  \/ rs_parse
  \/ rs_check_alive
  \/ rs_lost_unmount
  \/ rs_wait
  \/ rs_check_rc
  \/ rs_failed_unmount
  \/ rs_except
  \/ rs_finally
  \/ rs_finally_unmount
  \/ tr_poll
  \/ tr_wait
  \/ proc_write
  \/ proc_exit
  \/ \E i \in 1..Len(monitors) : mon_loop(i)
  \/ \E i \in 1..Len(monitors) : mon_ping(i)
  \/ \E i \in 1..Len(monitors) : mon_wake(i)

SpecTransfer == InitTransfer /\ [][NextTransfer]_vars

\* ---------------------------------------------------------- SpecClassify
\* The read loop of one rsync_files call on one line of output: the call is
\* in its loop, rsync runs and has written the line.
InitClassify ==
  /\ inventory = <<GoodLine>>
  /\ usersMarker = TRUE
  /\ present = {}
  /\ tempExists = FALSE
  /\ mountDepth = 1
  /\ pc = "rs_readline"
  /\ stack = <<>>
  /\ hostIdx = 1
  /\ attempt = 0
  /\ retryOk = TRUE
  /\ mountOk = TRUE
  /\ ensOk = TRUE
  /\ user_folders = <<>>
  /\ userIdx = 1
  /\ dirIdx = 1
  /\ existAttempt = 0
  /\ dir_found = TRUE
  /\ launched = {}
  /\ mountTried = TRUE
  /\ releases = 0
  /\ mountCmdFailed = FALSE
  /\ acquired = TRUE
  /\ outcome = "none"
  /\ acqOps = <<>>
  /\ lastCmdOk = TRUE
  /\ runs = 1
  /\ proc = "running"
  /\ signalled = "none"
  /\ returncode = 0
  /\ written = 1
  /\ \E ln \in ClassifyInputs : pipe = <<ln>>
  /\ line = <<>>
  /\ monitors = <<[pc |-> "loop", stop_monitoring |-> FALSE]>>
  /\ is_alive = TRUE
  /\ spinner = "spinning"
  /\ logged = {}
  /\ audit = <<>>
  /\ streamEnded = FALSE
  /\ readAfterLoss = FALSE
  /\ lostDuringRead = FALSE
  /\ warnings = 0
  /\ probeFailed = FALSE
  /\ hostLog = <<>>
  /\ unmountTried = TRUE
  /\ src_files = <<>>
  /\ dest_files = <<>>
  /\ deleted_files = {}
  /\ existChecks = 0
  /\ ensureCalls = 0
  /\ skipped = {}

NextClassify ==
  \/ rs_readline
  \/ rs_parse
  \/ rs_check_alive
  \/ proc_exit

SpecClassify == InitClassify /\ [][NextClassify]_vars


\* ==========================================================================
\* Properties of the orchestrator (Spec)
\* ==========================================================================

\* The processing of the current host has ended: at the end of a loop
\* iteration, or in the except clause of main.
HostEnded == pc \in {"main_next", "main_except"}

C7_ReleasedExactlyOncePerHost ==
  (HostEnded /\ mountTried) => releases = 1

\* C8: when main ends, every line of the inventory was processed.
C8_EveryHostProcessed ==
  pc = "main_end" => hostIdx > Len(inventory)

\* C9: when mount_cifs_share has returned, it ran the unmount and then the
\* mount command, and its result is True exactly when the mount command
\* succeeded, the mount point is a mount and Users exists under it.
C9_AcquireReportsSuccessIff ==
  pc = "retry_if" =>
    /\ acqOps = <<"umount", "mount">>
    /\ mountOk = (lastCmdOk /\ ismount /\ UsersExists)

\* A mount command that succeeded on a share without Users: the attempt
\* reports failure.
C9_Witness ==
  /\ pc = "retry_if"
  /\ lastCmdOk
  /\ ~usersMarker
  /\ ~mountOk

\* C10: at most one mount is active on the mount point at any moment.
C10_AtMostOneSession == mountDepth <= 1

\* ==========================================================================
\* Properties of one rsync_files call (SpecTransfer)
\* ==========================================================================

LinkLostMsg == Log("Connection lost. Terminating rsync process.")
CompletedMsg == Log("Rsync process completed successfully.")
ErrorMsg == Log("Rsync process error")
KillMsg == Log("Rsync did not terminate in time. Forcing kill.")
FailedMsgs ==
  {e \in logged : e.msg = "Rsync process failed with return code"}

\* rsync_files has returned from a call that saw is_alive cleared.
ReturnedAfterLinkLoss == pc = "rs_returned" /\ LinkLostMsg \in logged

\* C2: when a call that saw is_alive cleared returns, the subprocess has
\* exited and no line was read after the flag was seen.
C2_LinkLossStopsSubprocess ==
  ReturnedAfterLinkLoss => proc = "exited" /\ ~readAfterLoss

\* The flag was seen while the subprocess was running and had to be killed.
C2_Witness == ReturnedAfterLinkLoss /\ KillMsg \in logged /\ pipe # <<>>

\* C3: a call that saw is_alive cleared logs neither the failure with a
\* return code nor the success message.
C3_LinkLossIsTheOnlyOutcome ==
  ReturnedAfterLinkLoss => CompletedMsg \notin logged /\ FailedMsgs = {}

\* C4: a call that saw is_alive cleared runs unmount_cifs_share exactly once.
C4_LinkLossUnmountsOnce ==
  ReturnedAfterLinkLoss => releases = 1

\* The output ended and is_alive was never seen cleared.
ReturnedAfterEndOfStream ==
  pc = "rs_returned" /\ streamEnded /\ LinkLostMsg \notin logged

\* C5: when the output ended with no link loss seen, exit code 0 logs the
\* success message and no failure; any other exit code logs the failure with
\* that code, and only that one, and no success message.
C5_ExitCodeDecidesOutcome ==
  ReturnedAfterEndOfStream =>
    IF returncode = 0
      THEN CompletedMsg \in logged /\ FailedMsgs = {}
      ELSE /\ FailedMsgs =
                {LogRc("Rsync process failed with return code", returncode)}
           /\ CompletedMsg \notin logged

\* The output ended and rsync exited with an error code.
C5_Witness == ReturnedAfterEndOfStream /\ returncode # 0

\* C6: when the monitor cleared is_alive while the call was in its read loop
\* and rsync was running, and no exception ended the call, the call has seen
\* the flag before it returns.
C6_LinkLossIsObserved ==
  (pc = "rs_returned" /\ lostDuringRead /\ ErrorMsg \notin logged)
    => LinkLostMsg \in logged

\* ==========================================================================
\* Properties of the ConnectionMonitor threads (SpecTransfer)
\* ==========================================================================

\* Monitor thread i has left run(): its loop ended or an exception ended it.
Finished(i) == monitors[i].pc \in {"done", "crashed"}

\* C11: the monitor of the running call has logged no warning while its
\* is_alive flag is set, and exactly one since the flag was cleared.
C11_WarnsOncePerTransition == warnings = (IF is_alive THEN 0 ELSE 1)

\* C12: a monitor thread has finished only after stop() was called on it,
\* and a probe that raised has cleared the flag of the running call's monitor.
C12_ProbeErrorKeepsMonitoring ==
  /\ \A i \in 1..Len(monitors) : Finished(i) => monitors[i].stop_monitoring
  /\ (monitors # <<>> /\ monitors[Len(monitors)].pc = "crashed") => ~is_alive

\* C13: at most one ConnectionMonitor thread is running at any moment.
C13_OneMonitorAtATime ==
  Cardinality({i \in 1..Len(monitors) : ~Finished(i)}) <= 1

\* logging.basicConfig(filename=log_file) at line 489 sends every logging
\* call to log_file, the file rsync_files appends to: each warning of the
\* monitor (line 47) is an append to that file by the monitor thread.
MonitorAppends == warnings

\* C14: no step taken while the main thread is in the read loop, with
\* log_file open for appending, is an append of the monitor thread to
\* log_file.
C14_SingleLogWriter ==
  [][(pc \in ReadLoop) => (MonitorAppends' = MonitorAppends)]_vars

\* ==========================================================================
\* More properties of the orchestrator (Spec)
\* ==========================================================================

C16_UnreachableHostSkipped ==
  (pc = "main_next" /\ probeFailed) =>
    /\ ~mountTried
    /\ ~unmountTried
    /\ launched = {}
    /\ audit = <<>>
    /\ hostLog = <<"is not reachable">>

\* A later host of the inventory does not answer the ping.
C16_Witness == pc = "main_next" /\ probeFailed /\ hostIdx > 1

\* retry_mount_cifs has returned to its caller.
RetryReturned == pc \in {"main_mounted", "ens_ret"}

\* C20: when retry_mount_cifs returns, it made at most retries attempts
\* (attempt counts the failed ones), the last one an unmount followed by a
\* mount; it returns True exactly when the last attempt succeeded, with
\* fewer than retries failed attempts before it, and False exactly when
\* retries attempts failed.
C20_RetryBounded ==
  RetryReturned =>
    /\ attempt <= retries
    /\ retryOk = (attempt < retries)
    /\ retryOk = mountOk
    /\ acqOps = <<"umount", "mount">>

\* The third attempt succeeded after two failed ones.
C20_Witness == RetryReturned /\ retryOk /\ attempt = retries - 1

\* ==========================================================================
\* Properties of parse_rsync_output in the read loop (SpecClassify)
\* ==========================================================================

\* The rows of the chain whose prefix is the itemized field of the line,
\* blanks aside.
OwnRows(ln) ==
  {i \in 1..Len(ChangeTable) :
     LET prefix == ChangeTable[i][1]
     IN Strip(Take(ln, IF Len(prefix) > 11 THEN Len(prefix) ELSE 11)) = prefix}

\* The line has a full itemized field that no row of the chain matches.
Unrecognized(ln) ==
  /\ Len(Take(ln, 11)) = 11
  /\ \A i \in 1..Len(ChangeTable) :
       ~StartsWith(Strip(Take(ln, 11)), ChangeTable[i][1])

\* What the table documents for the line: the record of its own row (nothing
\* where the row documents None), or the record that keeps the field.
Documented(ln) ==
  IF OwnRows(ln) # {}
    THEN LET i == CHOOSE i \in OwnRows(ln) : TRUE
         IN IF ChangeTable[i][2] = "None"
              THEN <<>>
              ELSE <<[msg |-> ChangeTable[i][2], path |-> Strip(Drop(ln, 12)),
                      raw |-> <<>>]>>
    ELSE <<[msg |-> "File or directory underwent some change. Rsync output:",
            path |-> Strip(Drop(ln, 12)), raw |-> Strip(Take(ln, 11))]>>

\* C17: after the read loop classified a line whose itemized field is the
\* prefix of a row, or a full field that matches no row, the audit log holds
\* what the table documents for that line.
C17_ClassifyFollowsTable ==
  (pc = "rs_check_alive" /\ (OwnRows(line) # {} \/ Unrecognized(line)))
    => audit = Documented(line)

\* The itemized fields of an unchanged file, directory and symlink.
UnchangedMarkers == { <<".", "f">>, <<".", "d">>, <<".", "L">> }
NoTransferNeeded(ln) == Strip(Take(ln, 11)) \in UnchangedMarkers

\* C18: a line of an unchanged file, directory or symlink is classified as
\* None; the read loop has appended nothing to the audit log for a line
\* classified as None, and exactly one entry for any other line.
C18_NoneIsNotLogged ==
  pc = "rs_check_alive" =>
    /\ NoTransferNeeded(line) => parse_rsync_output(line) = NoneInfo
    /\ Len(audit) = IF parse_rsync_output(line) = NoneInfo THEN 0 ELSE 1

\* The line of an unchanged symlink went through the read loop.
C18_Witness ==
  /\ pc = "rs_check_alive"
  /\ Strip(Take(line, 11)) = <<".", "L">>
  /\ audit = <<>>

\* ==========================================================================
\* log_deleted_files (SpecAuditor)
\* ==========================================================================

\* Files under one directory tree.
MaxFiles == 3

\* The relative paths a tree can hold, and the two trees.
RelPaths == 1..MaxFiles
SrcRoot == "src_data"
DestRoot == "dest_data"

\* os.path.join(root, file)
join(root, file) == <<root, file>>

\* os.path.relpath(file, start) of a file under start
relpath(file, start) == IF file[1] = start THEN file[2] ELSE file

\* Lines 189-197: get_file_list(directory) lists every file of the tree
\* once, with its full path, in the order os.walk meets them.
FileLists(root) ==
  {[i \in DOMAIN l |-> join(root, l[i])] :
     l \in {s \in UNION {[1..n -> RelPaths] : n \in 0..MaxFiles} :
              \A i, j \in DOMAIN s : i # j => s[i] # s[j]}}

\* DeletedFiles with the operands of the difference swapped.
DeletedFiles_Swapped(src_relative_files, dest_relative_files) ==
  src_relative_files \ dest_relative_files

\* Line 208: deleted_files = dest_relative_files - src_relative_files
DeletedFiles(src_relative_files, dest_relative_files) ==
  dest_relative_files \ src_relative_files

\* Lines 204-208: the two lists, their relative paths, the difference.
ld_scan ==
  /\ pc = "ld_scan"
  /\ deleted_files' =
       DeletedFiles({relpath(file, SrcRoot) : file \in Range(src_files)},
                    {relpath(file, DestRoot) : file \in Range(dest_files)})
  /\ pc' = "ld_write"
  /\ UNCHANGED <<orchFrozen, xferVars, unmountTried, mountDepth, releases,
                 stack, src_files, dest_files>>

\* Lines 209-215: one entry with the full destination path for each deleted
\* file, in the order the set yields them; an exception of open or write
\* ends the function.
ld_write ==
  /\ pc = "ld_write"
  /\ IF deleted_files = {}
       THEN pc' = "ld_done" /\ UNCHANGED <<audit, deleted_files>>
       ELSE \E deleted_file \in deleted_files :
              \E raises \in WriteRaises :
                IF raises
                  THEN pc' = "ld_raised" /\ UNCHANGED <<audit, deleted_files>>
                  ELSE /\ audit' =
                            Append(audit,
                                   [msg |-> "Source file deleted. Backup copy saved.",
                                    path |-> join(DestRoot, deleted_file),
                                    raw |-> <<>>])
                       /\ deleted_files' = deleted_files \ {deleted_file}
                       /\ UNCHANGED pc
  /\ UNCHANGED <<orchFrozen, unmountTried, mountDepth, releases, stack, runs,
                 proc, signalled, returncode, written, pipe, line, monitors,
                 is_alive, spinner, logged, streamEnded, readAfterLoss,
                 lostDuringRead, warnings, src_files, dest_files>>

InitAuditor ==
  /\ inventory = <<GoodLine>>
  /\ usersMarker = TRUE
  /\ present = {}
  /\ tempExists = FALSE
  /\ mountDepth = 1
  /\ pc = "ld_scan"
  /\ stack = <<>>
  /\ hostIdx = 1
  /\ attempt = 0
  /\ retryOk = TRUE
  /\ mountOk = TRUE
  /\ ensOk = TRUE
  /\ user_folders = <<>>
  /\ userIdx = 1
  /\ dirIdx = 1
  /\ existAttempt = 0
  /\ dir_found = TRUE
  /\ launched = {}
  /\ mountTried = TRUE
  /\ releases = 0
  /\ mountCmdFailed = FALSE
  /\ acquired = TRUE
  /\ outcome = "none"
  /\ acqOps = <<>>
  /\ lastCmdOk = TRUE
  /\ runs = 0
  /\ proc = "none"
  /\ signalled = "none"
  /\ returncode = 0
  /\ written = 0
  /\ pipe = <<>>
  /\ line = <<>>
  /\ monitors = <<>>
  /\ is_alive = TRUE
  /\ spinner = "none"
  /\ logged = {}
  /\ audit = <<>>
  /\ streamEnded = FALSE
  /\ readAfterLoss = FALSE
  /\ lostDuringRead = FALSE
  /\ warnings = 0
  /\ probeFailed = FALSE
  /\ hostLog = <<>>
  /\ unmountTried = TRUE
  /\ src_files \in FileLists(SrcRoot)
  /\ dest_files \in FileLists(DestRoot)
  /\ deleted_files = {}
  /\ existChecks = 0
  /\ ensureCalls = 0
  /\ skipped = {}

NextAuditor ==
  \/ ld_scan
  \/ ld_write

SpecAuditor == InitAuditor /\ [][NextAuditor]_vars

\* The relative paths of a file list.
RelativeFiles(files) == {file[2] : file \in Range(files)}

\* C19: when log_deleted_files has ended, the audit log holds exactly one
\* entry for each relative path that is in the destination list and not in
\* the source list, and no other entry, whatever the order of the lists.
C19_OneEntryPerDeletedFile ==
  pc = "ld_done" =>
    LET D == RelativeFiles(dest_files)
        S == RelativeFiles(src_files)
    IN /\ {audit[i].path : i \in DOMAIN audit} =
            {join(DestRoot, path) : path \in D \ S}
       /\ Len(audit) = Cardinality(D \ S)

\* Some files of the destination are still in the source, some are not.
C19_Witness ==
  /\ pc = "ld_done"
  /\ src_files # <<>>
  /\ audit # <<>>
  /\ Len(audit) < Len(dest_files)

\* ==========================================================================
\* Properties of the shutdown of one rsync_files call (SpecTransfer)
\* ==========================================================================

\* C22: a signal is sent only to a process that is running, and the kill
\* signal only after the terminate signal was sent to it; a process that has
\* exited is sent neither. (rs_call forgets the signals of the previous
\* process.)
C22_TwoPhaseTerminate ==
  [][(signalled' # signalled /\ signalled' # "none")
       => (/\ proc = "running"
           /\ signalled' = "kill" => signalled = "term")]_vars

\* A process that ignored the terminate signal was killed.
C22_Witness ==
  /\ signalled = "kill"
  /\ proc = "exited"
  /\ returncode = -SIGKILL

\* C23: when a call in which an exception was caught returns, the rsync
\* process is not running.
C23_ExceptionStopsSubprocess ==
  (pc = "rs_returned" /\ ErrorMsg \in logged) => proc # "running"

NotMountedMsg == Log("Mount point is not valid.")

\* C24: when rsync_files returns, stop() was called on every monitor started
\* so far and the spinner, if the call made one, was stopped; a call that
\* found the mount point not mounted made no spinner, started no monitor of
\* its own and no rsync process.
C24_MonitorAndSpinnerStopped ==
  pc = "rs_returned" =>
    /\ \A i \in 1..Len(monitors) : monitors[i].stop_monitoring
    /\ spinner \in {"none", "stopped"}
    /\ NotMountedMsg \in logged =>
         (spinner = "none" /\ proc = "none" /\ Len(monitors) < runs)

\* A call that ended with an exception after the monitor had seen the link
\* lost.
C24_Witness ==
  /\ pc = "rs_returned"
  /\ ErrorMsg \in logged
  /\ ~is_alive
  /\ spinner = "stopped"

\* ------------------------------------------- the existence re-check loop
\* The sub-directory whose processing has just ended.
PreviousJob == <<user_folders[userIdx], UserDirs[dirIdx - 1]>>

\* C21: a sub-directory is checked for existence at most three times, with
\* at most one ensure_mount call between those checks; when it was absent on
\* every check, the warning is logged, no transfer is launched for it, and
\* the loop is at the next sub-directory of the same user folder.
C21_AbsentDirSkippedAfterRechecks ==
  /\ existChecks <= ExistAttempts
  /\ ensureCalls <= 1
  /\ (pc = "bk_dir_for" /\ dirIdx > 1 /\ ~dir_found) =>
       /\ existChecks >= 1
       /\ PreviousJob \in skipped
       /\ PreviousJob \notin launched
       /\ userIdx <= Len(user_folders)

\* A sub-directory absent on all three checks, with one remount check that
\* succeeded, was skipped.
C21_Witness ==
  /\ pc = "bk_dir_for"
  /\ dirIdx > 1
  /\ ~dir_found
  /\ existChecks = ExistAttempts
  /\ ensureCalls = 1
  /\ PreviousJob \in skipped

====
